---------------------------- MODULE Spec2Model ----------------------------
(***************************************************************************)
(* The Cross-Correlation Analysis (CCA) component of the dashboard:        *)
(* extractValues, mean, standardDeviation, normalize, calculateCorrelation,*)
(* shiftSeries, crossCorrelationAnalysis and the effect that runs them.    *)
(*                                                                         *)
(* Numbers.  Every number the component computes from integer inputs is a  *)
(* real of the form (n/d)*sqrt(r) with n an integer, d a positive integer  *)
(* and r a positive square-free integer (the square roots come from        *)
(* Math.sqrt in standardDeviation and calculateCorrelation).  Such a       *)
(* number is the record [n, d, r] in lowest terms, so that two numbers are *)
(* equal exactly when their records are equal.  The arithmetic is exact:   *)
(* rounding of IEEE-754 doubles is not represented.                        *)
(*                                                                         *)
(* App around it: calculateCorrelation, which mounts the component and     *)
(* resolves a promise from a timer, and the sentiment sidebar with the     *)
(* watchlist (performSentimentAnalysis, linkSentiment, unlinkSentiment,    *)
(* the sentiment search); the event list with its cache and search box     *)
(* (fetchAll, handleSearch); the price histories (fetchPriceHistory,       *)
(* fetchAndGraphMultipleTimeSeries).                                       *)
(***************************************************************************)
EXTENDS Integers, Sequences, FiniteSets, TLC, Bags

VARIABLES
    seriesA,        \* prop seriesA: sequence of records
    seriesB,        \* prop seriesB
    maxLag,         \* prop maxLag
    correlation,    \* useState correlation
    isCalculating,  \* useState isCalculating
    reported,       \* the values passed to onCorrelationCalculated, in order
    pc,             \* position of the effect
    valuesA,        \* effect locals
    valuesB,
    truncatedA,
    truncatedB,
    normalizedA,    \* crossCorrelationAnalysis locals
    normalizedB,
    lag,
    shiftedB,
    lastCorrelation,
    maxCorrelation,
    evals,          \* number of passes through the loop body
    bestLag,        \* <<l>>: the pass for lag l last assigned maxCorrelation
    data,           \* argument of a stand-alone extractValues call
    extracted,      \* its result
    timer,          \* the setTimeout of App's calculateCorrelation
    resolved,       \* the values its promise was resolved with
    watchlist,              \* App state: event ids, newest first
    currentEvent,           \* an event id, or NoEvent
    currentMarkets,         \* market ids of the selected event
    sentimentResults,
    filteredSentimentResults,
    sentimentSearchTerm,
    loadingSentiment,
    linkedPairs,            \* event id -> pairs
    sentimentCache,         \* cache key -> results
    jobs,                   \* the calls of performSentimentAnalysis in flight (a bag)
    apiEvents,              \* the events the API serves
    events,                 \* App state data: the event list
    eventDataCache,         \* the entry main_events, or NoEntry
    loader,                 \* position of the effect that runs fetchAll
    requests,               \* number of requests for events sent
    searchTerm,
    searchResults,
    renderedWatchlist,      \* the watchlist the callbacks of the last render hold
    clock,                  \* Date.now(), scaled
    priceHistoryCache,      \* cache key -> entry or NoEntry
    graphCalls,             \* fetchAndGraphMultipleTimeSeries calls in flight (a bag)
    analysisCalls,          \* price-history calls of performSentimentAnalysis (a bag)
    called,                 \* the fetchPriceHistory calls made by the last step
    returned,               \* the fetchPriceHistory calls that returned in the last step
    allTimeSeries,
    loadingPrices

\* the state of the CCA component and the locals of its effect
componentVars ==
    <<seriesA, seriesB, maxLag, correlation, isCalculating, reported, pc,
      valuesA, valuesB, truncatedA, truncatedB, normalizedA, normalizedB,
      lag, shiftedB, lastCorrelation, maxCorrelation, evals, bestLag>>

extractVars == <<data, extracted>>

wrapperVars == <<timer, resolved>>

\* the state of App that the sentiment sidebar and the watchlist use
dashVars ==
    <<watchlist, currentEvent, currentMarkets, sentimentResults,
      filteredSentimentResults, sentimentSearchTerm, loadingSentiment,
      linkedPairs, sentimentCache, jobs>>

\* the event list of App, its search box, and what the callbacks of the
\* last render see
appVars ==
    <<apiEvents, events, eventDataCache, loader, requests, searchTerm,
      searchResults>>

closureVars == <<renderedWatchlist>>

\* the price histories of App
priceVars ==
    <<clock, priceHistoryCache, graphCalls, analysisCalls, called, returned,
      allTimeSeries, loadingPrices>>

vars ==
    <<componentVars, extractVars, wrapperVars, dashVars, appVars,
      closureVars, priceVars>>

-----------------------------------------------------------------------------
(* Bounds of the model *)

MaxLen == 3
MaxLagBound == 3
MaxFields == 2
MaxData == 2
MaxShift == 2
ScenarioMaxLag == 5
MaxJobs == 1
MaxPairs == 1

-----------------------------------------------------------------------------
(* Exact arithmetic on numbers (n/d)*sqrt(r) *)

AbsInt(k) == IF k < 0 THEN -k ELSE k

RECURSIVE GCD(_, _)
GCD(a, b) == IF b = 0 THEN a ELSE GCD(b, a % b)

\* the integer square root of k >= 0, by bisection: lo*lo <= k < hi*hi
RECURSIVE ISqrtBetween(_, _, _)
ISqrtBetween(k, lo, hi) ==
    IF hi - lo <= 1 THEN lo
    ELSE LET mid == (lo + hi) \div 2
         IN  IF mid * mid <= k THEN ISqrtBetween(k, mid, hi)
             ELSE ISqrtBetween(k, lo, mid)

ISqrt(k) == ISqrtBetween(k, 0, (IF k < 46340 THEN k ELSE 46340) + 1)

\* the largest s with s*s dividing k, for k > 0 without a prime factor
\* below f
RECURSIVE SquarePartBy(_, _)
SquarePartBy(k, f) ==
    IF f * f > k \div f
    THEN (IF ISqrt(k) * ISqrt(k) = k THEN ISqrt(k) ELSE 1)
    ELSE IF k % (f * f) = 0 THEN f * SquarePartBy(k \div (f * f), f)
    ELSE IF k % f = 0 THEN SquarePartBy(k \div f, f + 1)
    ELSE SquarePartBy(k, f + 1)

SquarePart(k) == SquarePartBy(k, 2)

Zero == [n |-> 0, d |-> 1, r |-> 1]

\* (n/d)*sqrt(r) for any integers n, d # 0, r >= 0, brought to lowest terms
MkNum(n, d, r) ==
    IF n = 0 \/ r = 0 THEN Zero
    ELSE LET s  == IF r = 1 THEN 1 ELSE SquarePart(r)
             nn == (IF d < 0 THEN -n ELSE n) * s
             dd == AbsInt(d)
             g  == GCD(AbsInt(nn), dd)
         IN  [n |-> nn \div g, d |-> dd \div g, r |-> r \div (s * s)]

FromInt(k) == MkNum(k, 1, 1)

IsZero(a) == a.n = 0

Neg(a) == [a EXCEPT !.n = -a.n]

Abs(a) == [a EXCEPT !.n = AbsInt(a.n)]

\* (n/d)*sqrt(r) for n # 0, d # 0 and r square-free: the fraction brought
\* to lowest terms with a positive denominator
Frac(n, d, r) ==
    LET g == GCD(AbsInt(n), AbsInt(d))
    IN  [n |-> (IF d < 0 THEN -n ELSE n) \div g, d |-> AbsInt(d) \div g,
         r |-> r]

\* a * b.  With g the greatest common divisor of the two radicands,
\* sqrt(ra)*sqrt(rb) = g*sqrt((ra/g)*(rb/g)), and (ra/g)*(rb/g) is
\* square-free; common factors are cancelled before multiplying
Mul(a, b) ==
    LET g  == GCD(a.r, b.r)
        g1 == GCD(AbsInt(a.n), b.d)
        g2 == GCD(AbsInt(b.n), a.d)
    IN  IF IsZero(a) \/ IsZero(b) THEN Zero
        ELSE Frac((a.n \div g1) * (b.n \div g2) * g,
                  (a.d \div g2) * (b.d \div g1),
                  (a.r \div g) * (b.r \div g))

\* a / b for b # 0:  (n1/d1)sqrt(r1) / ((n2/d2)sqrt(r2))
\*                 = (n1*d2 / (d1*n2*r2)) * sqrt(r1*r2)
\*                 = (n1*d2 / (d1*n2*(r2/g))) * sqrt((r1/g)*(r2/g))
Div(a, b) ==
    LET g  == GCD(a.r, b.r)
        g1 == GCD(AbsInt(a.n), AbsInt(b.n))
        g2 == GCD(a.d, b.d)
    IN  IF IsZero(a) THEN Zero
        ELSE Frac((a.n \div g1) * (b.d \div g2),
                  (a.d \div g2) * (b.n \div g1) * (b.r \div g),
                  (a.r \div g) * (b.r \div g))

\* a + b; the two are rational multiples of the same square root, or one is 0
Add(a, b) ==
    LET g == GCD(a.d, b.d)
        n == a.n * (b.d \div g) + b.n * (a.d \div g)
    IN  IF IsZero(a) THEN b
        ELSE IF IsZero(b) THEN a
        ELSE IF n = 0 THEN Zero
        ELSE Frac(n, (a.d \div g) * b.d, a.r)

Sub(a, b) == Add(a, Neg(b))

\* Math.sqrt of a non-negative rational n/d in lowest terms:
\* sqrt(n)/sqrt(d) = (sn/(sd*rd)) * sqrt(rn*rd), with n = sn*sn*rn and
\* d = sd*sd*rd
Sqrt(a) ==
    LET sn == SquarePart(a.n)
        sd == SquarePart(a.d)
        rn == a.n \div (sn * sn)
        rd == a.d \div (sd * sd)
    IN  IF IsZero(a) THEN Zero
        ELSE Frac(sn, sd * rd, rn * rd)

\* p1/q1 > p2/q2 for positive integers, by integer parts and then the
\* reciprocals of the fractional parts
RECURSIVE FracGt(_, _, _, _)
FracGt(p1, q1, p2, q2) ==
    IF p1 \div q1 # p2 \div q2 THEN p1 \div q1 > p2 \div q2
    ELSE IF p1 % q1 = 0 THEN FALSE
    ELSE IF p2 % q2 = 0 THEN TRUE
    ELSE FracGt(q2, p2 % q2, q1, p1 % q1)

\* a * a as a fraction in lowest terms: n*n*r / (d*d), the factor common
\* to r and d cancelled before multiplying
SquareOf(a) ==
    LET g == GCD(a.r, a.d)
    IN  Frac(a.n * a.n * (a.r \div g), (a.d \div g) * a.d, 1)

\* a > b for non-negative a and b, by comparing their squares
GtNonNeg(a, b) ==
    IF IsZero(a) THEN FALSE
    ELSE IF IsZero(b) THEN TRUE
    ELSE LET sa == SquareOf(a)
             sb == SquareOf(b)
         IN  FracGt(sa.n, sa.d, sb.n, sb.d)

-----------------------------------------------------------------------------
(* JavaScript values, objects and arrays *)

\* a field value: a number, or a value of another type (here a string)
NumberValue(k) == [type |-> "number", num |-> FromInt(k)]

StringValue == [type |-> "string", num |-> Zero]

Undefined == [type |-> "undefined", num |-> Zero]

\* An object is the sequence of its own properties <<key, value>> in the
\* order in which they were created.  A key that is an array index ("7")
\* is integer-like.
IndexKeys == {"7"}

\* item[key]
Get(item, key) ==
    IF \E i \in 1..Len(item) : item[i][1] = key
    THEN item[CHOOSE i \in 1..Len(item) : item[i][1] = key][2]
    ELSE Undefined

\* the properties of item from position i on whose key is integer-like
\* (indexed = TRUE) or a string key (indexed = FALSE), in creation order
RECURSIVE EntriesKeyed(_, _, _)
EntriesKeyed(item, indexed, i) ==
    IF i > Len(item) THEN <<>>
    ELSE IF (item[i][1] \in IndexKeys) = indexed
         THEN <<item[i]>> \o EntriesKeyed(item, indexed, i + 1)
         ELSE EntriesKeyed(item, indexed, i + 1)

\* Object.entries(item): the own properties with integer-like keys come
\* first (in ascending numeric order; the records here have at most one),
\* then the string keys in creation order
ObjectEntries(item) ==
    EntriesKeyed(item, TRUE, 1) \o EntriesKeyed(item, FALSE, 1)

\* Array.prototype.slice(start, end) on a 1-based sequence; a negative
\* index counts from the end, and both are clamped to [0, length]
RelativeIndex(k, len) ==
    IF k < 0 THEN (IF len + k < 0 THEN 0 ELSE len + k)
    ELSE (IF k > len THEN len ELSE k)

Slice(s, start, end) ==
    LET from == RelativeIndex(start, Len(s))
        to   == RelativeIndex(end, Len(s))
    IN  IF from >= to THEN <<>> ELSE SubSeq(s, from + 1, to)

\* series.slice(start)
SliceFrom(s, start) == Slice(s, start, Len(s))

\* new Array(k).fill(0)
ZeroArray(k) == [i \in 1..k |-> Zero]

\* The array a call was made on, as the call leaves it.
\* s.splice(start, count) removes count elements from start on
AfterSplice(s, start, end) ==
    LET from  == RelativeIndex(start, Len(s))
        count == IF end < 0 THEN 0
                 ELSE IF end > Len(s) - from THEN Len(s) - from ELSE end
    IN  SubSeq(s, 1, from) \o SubSeq(s, from + count + 1, Len(s))

\* s.slice(start, end) copies and leaves s as it is
AfterSlice(s, start, end) == s

\* arr.map(f) with a callback that only reads its argument leaves arr and
\* its elements as they are
AfterMap(arr) == arr

-----------------------------------------------------------------------------
(* The functions of the component *)

\* the scan without the test for the timestamp key
RECURSIVE FirstNumericAny(_, _)
FirstNumericAny(entries, i) ==
    IF i > Len(entries) THEN Zero
    ELSE IF entries[i][2].type = "number" THEN entries[i][2].num
         ELSE FirstNumericAny(entries, i + 1)

\* the number one record contributes (the body of the map callback)
RECURSIVE FirstNumeric(_, _)
FirstNumeric(entries, i) ==
    IF i > Len(entries) THEN Zero
    ELSE IF entries[i][1] # "timestamp" /\ entries[i][2].type = "number"
         THEN entries[i][2].num
         ELSE FirstNumeric(entries, i + 1)

ExtractOne(item) ==
    IF Get(item, "value").type = "number" THEN Get(item, "value").num
    ELSE FirstNumeric(ObjectEntries(item), 1)

extractValues(d) == [i \in 1..Len(d) |-> ExtractOne(d[i])]

\* arr.reduce((sum, val) => sum + val, 0)
RECURSIVE SumFrom(_, _)
SumFrom(arr, i) ==
    IF i > Len(arr) THEN Zero ELSE Add(arr[i], SumFrom(arr, i + 1))

mean(arr) == Div(SumFrom(arr, 1), FromInt(Len(arr)))

standardDeviation(arr) ==
    LET avg == mean(arr)
        squareDiffs == [i \in 1..Len(arr) |->
                            Mul(Sub(arr[i], avg), Sub(arr[i], avg))]
    IN  Sqrt(mean(squareDiffs))

\* normalize that hands a zero-deviation series back unchanged
normalizeNoZeroFill(arr) ==
    LET avg == mean(arr)
        std == standardDeviation(arr)
    IN  IF IsZero(std) THEN arr
        ELSE [i \in 1..Len(arr) |-> Div(Sub(arr[i], avg), std)]

normalize(arr) ==
    LET avg == mean(arr)
        std == standardDeviation(arr)
    IN  IF IsZero(std) THEN [i \in 1..Len(arr) |-> Zero]
        ELSE [i \in 1..Len(arr) |-> Div(Sub(arr[i], avg), std)]

\* the result of 0 / 0
NaN == [n |-> 0, d |-> 0, r |-> 1]

\* calculateCorrelation that uses the means of the z-scores (0 and 0) for
\* the shifted series too, instead of computing them again
calculateCorrelationNoMeans(x, y) ==
    IF Len(x) # Len(y) \/ Len(x) = 0 THEN Zero
    ELSE LET diffX == x
             diffY == y
             numerator == SumFrom([i \in 1..Len(x) |-> Mul(diffX[i], diffY[i])], 1)
             sumXSquared == SumFrom([i \in 1..Len(x) |-> Mul(diffX[i], diffX[i])], 1)
             sumYSquared == SumFrom([i \in 1..Len(x) |-> Mul(diffY[i], diffY[i])], 1)
             denominator == Sqrt(Mul(sumXSquared, sumYSquared))
         IN  IF IsZero(denominator) THEN Zero ELSE Div(numerator, denominator)

\* calculateCorrelation that divides without testing the denominator
calculateCorrelationUnguarded(x, y) ==
    IF Len(x) # Len(y) \/ Len(x) = 0 THEN Zero
    ELSE LET meanX == mean(x)
             meanY == mean(y)
             diffX == [i \in 1..Len(x) |-> Sub(x[i], meanX)]
             diffY == [i \in 1..Len(x) |-> Sub(y[i], meanY)]
             numerator == SumFrom([i \in 1..Len(x) |-> Mul(diffX[i], diffY[i])], 1)
             sumXSquared == SumFrom([i \in 1..Len(x) |-> Mul(diffX[i], diffX[i])], 1)
             sumYSquared == SumFrom([i \in 1..Len(x) |-> Mul(diffY[i], diffY[i])], 1)
             denominator == Sqrt(Mul(sumXSquared, sumYSquared))
         IN  IF IsZero(denominator) THEN NaN ELSE Div(numerator, denominator)

\* calculateCorrelation whose denominator lacks Math.sqrt
calculateCorrelationNoSqrt(x, y) ==
    IF Len(x) # Len(y) \/ Len(x) = 0 THEN Zero
    ELSE LET meanX == mean(x)
             meanY == mean(y)
             diffX == [i \in 1..Len(x) |-> Sub(x[i], meanX)]
             diffY == [i \in 1..Len(x) |-> Sub(y[i], meanY)]
             numerator == SumFrom([i \in 1..Len(x) |-> Mul(diffX[i], diffY[i])], 1)
             sumXSquared == SumFrom([i \in 1..Len(x) |-> Mul(diffX[i], diffX[i])], 1)
             sumYSquared == SumFrom([i \in 1..Len(x) |-> Mul(diffY[i], diffY[i])], 1)
             denominator == Mul(sumXSquared, sumYSquared)
         IN  IF IsZero(denominator) THEN Zero ELSE Div(numerator, denominator)

calculateCorrelation(x, y) ==
    IF Len(x) # Len(y) \/ Len(x) = 0 THEN Zero
    ELSE LET meanX == mean(x)
             meanY == mean(y)
             diffX == [i \in 1..Len(x) |-> Sub(x[i], meanX)]
             diffY == [i \in 1..Len(x) |-> Sub(y[i], meanY)]
             numerator == SumFrom([i \in 1..Len(x) |-> Mul(diffX[i], diffY[i])], 1)
             sumXSquared == SumFrom([i \in 1..Len(x) |-> Mul(diffX[i], diffX[i])], 1)
             sumYSquared == SumFrom([i \in 1..Len(x) |-> Mul(diffY[i], diffY[i])], 1)
             denominator == Sqrt(Mul(sumXSquared, sumYSquared))
         IN  IF IsZero(denominator) THEN Zero ELSE Div(numerator, denominator)

\* shiftSeries with the two directions exchanged
shiftSeriesSwapped(series, l) ==
    IF l < 0 THEN SliceFrom(series, AbsInt(l)) \o ZeroArray(AbsInt(l))
    ELSE IF l > 0 THEN ZeroArray(l) \o Slice(series, 0, -l)
    ELSE series

shiftSeries(series, l) ==
    IF l > 0 THEN SliceFrom(series, l) \o ZeroArray(l)
    ELSE IF l < 0 THEN ZeroArray(AbsInt(l)) \o Slice(series, 0, l)
    ELSE series

\* series after shiftSeries(series, l): slice in both shifting branches,
\* the spread [...series] for lag 0
ArgumentAfterShift(series, l) ==
    IF l > 0 THEN AfterSlice(series, l, Len(series))
    ELSE IF l < 0 THEN AfterSlice(series, 0, l)
    ELSE series

\* the test of the update with >= in place of >
ReplacesOrEqual(corr, best) == ~GtNonNeg(Abs(best), Abs(corr))

\* Math.abs(correlation) > Math.abs(maxCorrelation)
Replaces(corr, best) == GtNonNeg(Abs(corr), Abs(best))

\* the update without Math.abs around the new correlation
KeepMaxSigned(corr, best) ==
    IF corr.n > 0 /\ GtNonNeg(corr, Abs(best)) THEN corr ELSE best

\* the update of maxCorrelation in the loop body
KeepMax(corr, best) == IF Replaces(corr, best) THEN corr ELSE best

\* the loop of crossCorrelationAnalysis from lag l on
RECURSIVE Sweep(_, _, _, _, _)
Sweep(normA, normB, l, ml, best) ==
    IF l > ml THEN best
    ELSE Sweep(normA, normB, l + 1, ml,
               KeepMax(calculateCorrelation(normA, shiftSeries(normB, l)), best))

\* Percentage without the factor 100
PercentageUnscaled(best) == Abs(best)

\* Percentage without Math.abs: the sign of the best correlation is kept
PercentageSigned(best) == Mul(best, FromInt(100))

\* Math.abs(maxCorrelation) * 100
Percentage(best) == Mul(Abs(best), FromInt(100))

crossCorrelationAnalysis(vA, vB, ml) ==
    Percentage(Sweep(normalize(vA), normalize(vB), -ml, ml, Zero))

\* truncation that keeps the last minLength values
TruncateTail(values, minLength) ==
    Slice(values, Len(values) - minLength, Len(values))

\* valuesA.slice(0, minLength)
Truncate(values, minLength) == Slice(values, 0, minLength)

Min(a, b) == IF a < b THEN a ELSE b

-----------------------------------------------------------------------------
(* Inputs *)

\* the numbers a series is made of
Values == {-1, 0, 1}

\* the values of the prop maxLag: no shift, one place, the greatest
LagChoices == {0, 1, MaxLagBound}

\* all sequences over S of length 0..k
SeqsUpTo(S, k) == UNION {[1..m -> S] : m \in 0..k}

\* the records {value: v} of a series handed to the component
ValueRecord(v) == <<(<<"value", NumberValue(v)>>)>>

SeriesSet == SeqsUpTo({ValueRecord(v) : v \in Values}, MaxLen)

\* records for a stand-alone extractValues call: up to MaxFields
\* properties with distinct keys.  Each key carries its own number, so
\* that the extracted number tells which property was taken.
FieldKeys == {"timestamp", "value", "price", "7"}

FieldValuesOf(key) ==
    CASE key = "value"     -> {NumberValue(1), StringValue}
      [] key = "timestamp" -> {NumberValue(4), StringValue}
      [] key = "price"     -> {NumberValue(2)}
      [] key = "7"         -> {NumberValue(3)}

Fields == {f \in FieldKeys \X {NumberValue(1), NumberValue(2), NumberValue(3),
                               NumberValue(4), StringValue} :
              f[2] \in FieldValuesOf(f[1])}

RecordSet ==
    {item \in SeqsUpTo(Fields, MaxFields) :
        \A i, j \in 1..Len(item) : i # j => item[i][1] # item[j][1]}

\* The events App has loaded, with the markets of each
NoEvent == "none"

EventIds == {"e1", "e2"}

MarketsOf(e) == IF e = "e1" THEN <<"m1", "m2">> ELSE <<"m3">>

\* markets.slice(0, 5).map(m => m.id || m.question).join('_')
CacheKeyOf(markets) == Slice(markets, 0, 5)

CacheKeys == {CacheKeyOf(MarketsOf(e)) : e \in EventIds}

\* what /api/events may hold: no event, one page, or more than one page
ApiEventLists == {<<>>, <<"e1">>, <<"e1", "e2">>}

\* the text typed into the search box of the event list
SearchTerms == {"", "e", "e1"}

\* JSON.parse(market.clobTokenIds): the token ids of the two outcomes
ClobIdsOf(m) == <<<<m, "yes">>, <<m, "no">>>>

\* intervalConfigs[selectedInterval] of the default interval
DefaultInterval == [interval |-> "1m", fidelity |-> "180"]

\* `${clobID}_${interval}_${fidelity}`
PriceKeyOf(clobID, interval, fidelity) == <<clobID, interval, fidelity>>

PriceKeys ==
    {PriceKeyOf(ClobIdsOf(m)[n], DefaultInterval.interval,
                DefaultInterval.fidelity) :
        m \in {"m1", "m2", "m3"}, n \in 1..2}

-----------------------------------------------------------------------------
(* The component: state after mounting, and the effect *)

\* the state and the effect's locals of a component just mounted
ComponentFresh ==
    /\ correlation = Zero
    /\ isCalculating = FALSE
    /\ reported = <<>>
    /\ pc = "mounted"
    /\ valuesA = <<>>
    /\ valuesB = <<>>
    /\ truncatedA = <<>>
    /\ truncatedB = <<>>
    /\ normalizedA = <<>>
    /\ normalizedB = <<>>
    /\ lag = 0
    /\ shiftedB = <<>>
    /\ lastCorrelation = Zero
    /\ maxCorrelation = Zero
    /\ evals = 0
    /\ bestLag = <<>>

\* no stand-alone extractValues call
ExtractIdle == data = <<>> /\ extracted = <<>>

\* no calculateCorrelation promise of App around the component
WrapperIdle == timer = "none" /\ resolved = <<>>

\* App as its useState calls initialise it
DashFresh ==
    /\ watchlist = <<>>
    /\ currentEvent = NoEvent
    /\ currentMarkets = <<>>
    /\ sentimentResults = <<>>
    /\ filteredSentimentResults = <<>>
    /\ sentimentSearchTerm = ""
    /\ loadingSentiment = FALSE
    /\ linkedPairs = [e \in EventIds |-> <<>>]
    /\ sentimentCache = [k \in CacheKeys |-> <<>>]
    /\ jobs = EmptyBag

\* the event list of App is not followed: nothing fetched, nothing typed
AppIdle ==
    /\ apiEvents = <<>>
    /\ events = <<>>
    /\ eventDataCache = <<>>
    /\ loader = [pc |-> "idle"]
    /\ requests = 0
    /\ searchTerm = ""
    /\ searchResults = <<>>

\* the callbacks hold the watchlist of the first render
ClosuresFresh == renderedWatchlist = <<>>

\* no price history asked for
PricesIdle ==
    /\ clock = 0
    /\ priceHistoryCache = [k \in PriceKeys |-> <<>>]
    /\ graphCalls = EmptyBag
    /\ analysisCalls = EmptyBag
    /\ called = {}
    /\ returned = {}
    /\ allTimeSeries = <<>>
    /\ loadingPrices = FALSE

Init ==
    /\ seriesA \in SeriesSet
    /\ seriesB \in SeriesSet
    /\ maxLag \in LagChoices
    /\ ComponentFresh
    /\ ExtractIdle
    /\ WrapperIdle
    /\ DashFresh
    /\ AppIdle
    /\ ClosuresFresh
    /\ PricesIdle

\* The effect runs once after mounting.  Its props are arrays of records,
\* for which no statement of the try block throws, so the catch clause is
\* never entered; finally runs on both ways out of the try block.

\* the early return of the effect: a series is empty
EffectSkip ==
    /\ pc = "mounted"
    /\ Len(seriesA) = 0 \/ Len(seriesB) = 0
    /\ pc' = "done"
    /\ UNCHANGED <<seriesA, seriesB, maxLag, correlation, isCalculating,
                   reported, valuesA, valuesB, truncatedA, truncatedB,
                   normalizedA, normalizedB, lag, shiftedB, lastCorrelation,
                   maxCorrelation, evals, bestLag, extractVars, wrapperVars,
                   dashVars,
                   appVars, closureVars, priceVars>>

\* the effect when minLength < 2: report 0 and return through finally
EffectTooShort ==
    /\ pc = "mounted"
    /\ Len(seriesA) # 0 /\ Len(seriesB) # 0
    /\ LET vA == extractValues(seriesA)
           vB == extractValues(seriesB)
           minLength == Min(Len(vA), Len(vB))
       IN  /\ minLength < 2
           /\ seriesA' = AfterMap(seriesA)
           /\ seriesB' = AfterMap(seriesB)
           /\ valuesA' = AfterSlice(vA, 0, minLength)
           /\ valuesB' = AfterSlice(vB, 0, minLength)
           /\ truncatedA' = Truncate(vA, minLength)
           /\ truncatedB' = Truncate(vB, minLength)
    /\ correlation' = Zero
    /\ reported' = Append(reported, Zero)
    /\ isCalculating' = FALSE
    /\ pc' = "done"
    /\ UNCHANGED <<maxLag, normalizedA, normalizedB, lag, shiftedB,
                   lastCorrelation, maxCorrelation, evals, bestLag,
                   extractVars, wrapperVars, dashVars,
                   appVars, closureVars, priceVars>>

\* the effect up to the first test of the loop in crossCorrelationAnalysis
EffectBegin ==
    /\ pc = "mounted"
    /\ Len(seriesA) # 0 /\ Len(seriesB) # 0
    /\ LET vA == extractValues(seriesA)
           vB == extractValues(seriesB)
           minLength == Min(Len(vA), Len(vB))
       IN  /\ minLength >= 2
           /\ seriesA' = AfterMap(seriesA)
           /\ seriesB' = AfterMap(seriesB)
           /\ valuesA' = AfterSlice(vA, 0, minLength)
           /\ valuesB' = AfterSlice(vB, 0, minLength)
           /\ truncatedA' = AfterMap(Truncate(vA, minLength))
           /\ truncatedB' = AfterMap(Truncate(vB, minLength))
           /\ normalizedA' = normalize(Truncate(vA, minLength))
           /\ normalizedB' = normalize(Truncate(vB, minLength))
    /\ isCalculating' = TRUE
    /\ maxCorrelation' = Zero
    /\ bestLag' = <<>>
    /\ lag' = -maxLag
    /\ pc' = "sweep"
    /\ UNCHANGED <<maxLag, correlation, reported, shiftedB, lastCorrelation,
                   evals, extractVars, wrapperVars, dashVars,
                   appVars, closureVars, priceVars>>

\* one pass through the loop body
LagStep ==
    /\ pc = "sweep"
    /\ lag <= maxLag
    /\ shiftedB' = shiftSeries(normalizedB, lag)
    /\ normalizedB' = ArgumentAfterShift(normalizedB, lag)
    /\ lastCorrelation' = calculateCorrelation(normalizedA, shiftedB')
    /\ maxCorrelation' = KeepMax(lastCorrelation', maxCorrelation)
    /\ bestLag' = IF Replaces(lastCorrelation', maxCorrelation)
                  THEN <<lag>> ELSE bestLag
    /\ lag' = lag + 1
    /\ evals' = evals + 1
    /\ UNCHANGED <<seriesA, seriesB, maxLag, correlation, isCalculating,
                   reported, pc, valuesA, valuesB, truncatedA, truncatedB,
                   normalizedA, extractVars, wrapperVars, dashVars,
                   appVars, closureVars, priceVars>>

\* loop exit, the return of crossCorrelationAnalysis, and the rest of the
\* effect: setCorrelation, onCorrelationCalculated, finally
EffectFinish ==
    /\ pc = "sweep"
    /\ lag > maxLag
    /\ correlation' = Percentage(maxCorrelation)
    /\ reported' = Append(reported, Percentage(maxCorrelation))
    /\ isCalculating' = FALSE
    /\ pc' = "done"
    /\ UNCHANGED <<seriesA, seriesB, maxLag, valuesA, valuesB, truncatedA,
                   truncatedB, normalizedA, normalizedB, lag, shiftedB,
                   lastCorrelation, maxCorrelation, evals, bestLag,
                   extractVars, wrapperVars, dashVars,
                   appVars, closureVars, priceVars>>

Next == EffectSkip \/ EffectTooShort \/ EffectBegin \/ LagStep \/ EffectFinish

Spec == Init /\ [][Next]_vars

-----------------------------------------------------------------------------
(* extractValues called on its own *)

InitExtract ==
    /\ \E m \in 0..MaxData : data \in [1..m -> RecordSet]
    /\ extracted = <<>>
    /\ pc = "extract"
    /\ seriesA = <<>>
    /\ seriesB = <<>>
    /\ maxLag = 0
    /\ correlation = Zero
    /\ isCalculating = FALSE
    /\ reported = <<>>
    /\ valuesA = <<>>
    /\ valuesB = <<>>
    /\ truncatedA = <<>>
    /\ truncatedB = <<>>
    /\ normalizedA = <<>>
    /\ normalizedB = <<>>
    /\ lag = 0
    /\ shiftedB = <<>>
    /\ lastCorrelation = Zero
    /\ maxCorrelation = Zero
    /\ evals = 0
    /\ bestLag = <<>>
    /\ WrapperIdle
    /\ DashFresh
    /\ AppIdle
    /\ ClosuresFresh
    /\ PricesIdle

ExtractCall ==
    /\ pc = "extract"
    /\ extracted' = extractValues(data)
    /\ data' = AfterMap(data)
    /\ pc' = "extracted"
    /\ UNCHANGED <<seriesA, seriesB, maxLag, correlation, isCalculating,
                   reported, valuesA, valuesB, truncatedA, truncatedB,
                   normalizedA, normalizedB, lag, shiftedB, lastCorrelation,
                   maxCorrelation, evals, bestLag, wrapperVars, dashVars,
                   appVars, closureVars, priceVars>>

NextExtract == ExtractCall

SpecExtract == InitExtract /\ [][NextExtract]_vars

-----------------------------------------------------------------------------
(* calculateCorrelation called on its own, on two arrays of numbers *)

NumberArrays == SeqsUpTo({FromInt(v) : v \in Values}, MaxLen)

InitPearson ==
    /\ normalizedA \in NumberArrays
    /\ shiftedB \in NumberArrays
    /\ pc = "pearson"
    /\ seriesA = <<>>
    /\ seriesB = <<>>
    /\ maxLag = 0
    /\ correlation = Zero
    /\ isCalculating = FALSE
    /\ reported = <<>>
    /\ valuesA = <<>>
    /\ valuesB = <<>>
    /\ truncatedA = <<>>
    /\ truncatedB = <<>>
    /\ normalizedB = <<>>
    /\ lag = 0
    /\ lastCorrelation = Zero
    /\ maxCorrelation = Zero
    /\ evals = 0
    /\ bestLag = <<>>
    /\ ExtractIdle
    /\ WrapperIdle
    /\ DashFresh
    /\ AppIdle
    /\ ClosuresFresh
    /\ PricesIdle

PearsonCall ==
    /\ pc = "pearson"
    /\ lastCorrelation' = calculateCorrelation(normalizedA, shiftedB)
    /\ pc' = "returned"
    /\ UNCHANGED <<seriesA, seriesB, maxLag, correlation, isCalculating,
                   reported, valuesA, valuesB, truncatedA, truncatedB,
                   normalizedA, normalizedB, lag, shiftedB, maxCorrelation,
                   evals, bestLag, extractVars, wrapperVars, dashVars,
                   appVars, closureVars, priceVars>>

NextPearson == PearsonCall

SpecPearson == InitPearson /\ [][NextPearson]_vars

-----------------------------------------------------------------------------
(* The component on a ramp and the same ramp shifted right *)

ScenarioX == <<1, 2, 3, 4, 5, 6, 7, 8, 9, 10>>

\* x shifted right by k, zeros prepended
ShiftRight(x, k) == [i \in 1..Len(x) |-> IF i <= k THEN 0 ELSE x[i - k]]

SeriesOf(x) == [i \in 1..Len(x) |-> ValueRecord(x[i])]

InitScenario ==
    /\ seriesA = SeriesOf(ScenarioX)
    /\ \E k \in 0..MaxShift : seriesB = SeriesOf(ShiftRight(ScenarioX, k))
    /\ maxLag \in 0..ScenarioMaxLag
    /\ ComponentFresh
    /\ ExtractIdle
    /\ WrapperIdle
    /\ DashFresh
    /\ AppIdle
    /\ ClosuresFresh
    /\ PricesIdle

\* both series have ten records: the effect takes neither early return
NextScenario == EffectBegin \/ LagStep \/ EffectFinish

SpecScenario == InitScenario /\ [][NextScenario]_vars

-----------------------------------------------------------------------------
(* App's calculateCorrelation: the component mounted in a root of its own, *)
(* and a timer that unmounts it and resolves the promise                   *)

WrapperMaxLag == 10

\* the local correlation of the promise executor: 0 until the callback
\* handleCorrelationCalculated has stored a score
CallbackValue == IF reported = <<>> THEN Zero ELSE reported[Len(reported)]

InitWrapper ==
    /\ seriesA \in SeriesSet
    /\ seriesB \in SeriesSet
    /\ maxLag = WrapperMaxLag
    /\ ComponentFresh
    /\ ExtractIdle
    /\ timer = "pending"
    /\ resolved = <<>>
    /\ DashFresh
    /\ AppIdle
    /\ ClosuresFresh
    /\ PricesIdle

\* The timer callback.  The effect is one task of the event loop, so the
\* callback runs before it has started or after it has ended; an unmounted
\* component's effect does not run.
TimerFires ==
    /\ timer = "pending"
    /\ pc \in {"mounted", "done"}
    /\ timer' = "fired"
    /\ resolved' = Append(resolved, CallbackValue)
    /\ pc' = IF pc = "mounted" THEN "unmounted" ELSE pc
    /\ UNCHANGED <<seriesA, seriesB, maxLag, correlation, isCalculating,
                   reported, valuesA, valuesB, truncatedA, truncatedB,
                   normalizedA, normalizedB, lag, shiftedB, lastCorrelation,
                   maxCorrelation, evals, bestLag, extractVars, dashVars,
                   appVars, closureVars, priceVars>>

NextWrapper ==
    \/ EffectSkip
    \/ EffectTooShort
    \/ EffectBegin
    \/ LagStep
    \/ EffectFinish
    \/ TimerFires

SpecWrapper == InitWrapper /\ [][NextWrapper]_vars

-----------------------------------------------------------------------------
(* The sentiment sidebar and the watchlist of App.  A SentimentResult is    *)
(* the record [marketId, gdeltQuery, correlation, isLinked]; its fields     *)
(* marketQuestion and keywords are determined by the market and the query    *)
(* and are left out.  A MarketQueryPair has the same fields.                *)

\* .slice(0, 15) of the sorted results
ResultCap == 15

\* the scores calculateCorrelation may resolve with, for the series of a
\* market
ScoresOf(m) == IF m = "m2" THEN {70} ELSE {30}

\* generateQueries(market.question).slice(0, 3)
QueriesOf(m) == <<"q1">>

\* the text typed into the sentiment search box
SearchValues == {"", "m1"}

\* sentimentFuse.search(value): the results whose market matches the text
Matches(r, value) == r.marketId = value

SentimentResult(m, q, c) ==
    [marketId |-> m, gdeltQuery |-> q, correlation |-> c, isLinked |-> FALSE]

\* what the promise of one query resolves with.  Every query here finds
\* data; one that finds none resolves with null, which filter(Boolean)
\* drops, and adds nothing to any list.
QueryOutcomes(m, q) == {<<SentimentResult(m, q, c)>> : c \in ScoresOf(m)}

\* results.filter(Boolean) of one market, from query i on
RECURSIVE ValidResultsFrom(_, _)
ValidResultsFrom(m, i) ==
    IF i > Len(QueriesOf(m)) THEN {<<>>}
    ELSE {a \o b : a \in QueryOutcomes(m, QueriesOf(m)[i]),
                   b \in ValidResultsFrom(m, i + 1)}

ValidResults(m) == ValidResultsFrom(m, 1)

\* pair.marketId === result.marketId && pair.gdeltQuery === result.gdeltQuery
SamePair(p, r) == p.marketId = r.marketId /\ p.gdeltQuery = r.gdeltQuery

\* the MarketQueryPair made of a result
PairOf(r) == [r EXCEPT !.isLinked = TRUE]

PairsOf(results) == [k \in 1..Len(results) |-> PairOf(results[k])]

\* results.filter(r => r.isLinked)
LinkedResults(results) == SelectSeq(results, LAMBDA r : r.isLinked)

\* results.map(r => matches ? {...r, isLinked: flag} : r)
SetLinked(results, result, flag) ==
    [k \in 1..Len(results) |->
        IF SamePair(results[k], result)
        THEN [results[k] EXCEPT !.isLinked = flag]
        ELSE results[k]]

\* totalResults.map(result => ({...result, isLinked: pairs.some(...)}))
WithLinkedState(results, pairs) ==
    [k \in 1..Len(results) |->
        [results[k] EXCEPT !.isLinked =
            \E n \in 1..Len(pairs) : SamePair(pairs[n], results[k])]]

\* allResults.flat()
RECURSIVE Flat(_)
Flat(arrays) ==
    IF arrays = <<>> THEN <<>>
    ELSE arrays[1] \o Flat(SubSeq(arrays, 2, Len(arrays)))

\* the array without the stable sort
Unsorted(results) == results

\* one step of the stable sort: r goes behind the results that are not
\* smaller
InsertByCorrelation(r, sorted) ==
    LET k == Cardinality({n \in 1..Len(sorted) :
                            sorted[n].correlation >= r.correlation})
    IN  SubSeq(sorted, 1, k) \o <<r>> \o SubSeq(sorted, k + 1, Len(sorted))

\* results.sort((a, b) => b.correlation - a.correlation)
RECURSIVE SortByCorrelation(_)
SortByCorrelation(results) ==
    IF results = <<>> THEN <<>>
    ELSE InsertByCorrelation(results[Len(results)],
            SortByCorrelation(SubSeq(results, 1, Len(results) - 1)))

\* .sort(...).slice(0, 15)
TopResults(results) == Slice(SortByCorrelation(results), 0, ResultCap)

\* watchlist.some(item => item.id === eventId)
isInWatchlist(eventId) == \E n \in 1..Len(watchlist) : watchlist[n] = eventId

\* item => item.id === event.id, somewhere in the list
InList(list, eventId) == \E n \in 1..Len(list) : list[n] = eventId

\* addToWatchlist(event) of a render that saw the watchlist seen; prev is
\* the state the updater is applied to
addToWatchlist(seen, prev, event) ==
    IF ~InList(seen, event) THEN <<event>> \o prev ELSE prev

\* removeFromWatchlist(eventId): prev.filter(item => item.id !== eventId)
removeFromWatchlist(prev, eventId) ==
    SelectSeq(prev, LAMBDA item : item # eventId)

\* disabled={!isInWatchlist(currentEvent?.id || '')}
LinkButtonDisabled == ~isInWatchlist(currentEvent)

\* the list of results is rendered, with a button on each
ListShown == ~loadingSentiment

\* linkedPairs.get(eventId || '') || []
PairsFor(eventId) == IF eventId = NoEvent THEN <<>> ELSE linkedPairs[eventId]

\* a call of performSentimentAnalysis that has passed the cache: the
\* values its closure holds and what its market promises have returned.
\* The calls in flight are a bag: they have no order.
NewJob(markets) ==
    [cacheKey |-> CacheKeyOf(markets),
     markets |-> Slice(markets, 0, 5),
     eventId |-> currentEvent,
     linkedPairsForEvent |-> PairsFor(currentEvent),
     pending |-> 1..Len(Slice(markets, 0, 5)),
     allResults |-> [i \in 1..Len(Slice(markets, 0, 5)) |-> <<>>]]

\* newMap.set(eventId, restoredPairs), if there is an event and a linked
\* result
RestoredPairs(eventId, results) ==
    IF eventId # NoEvent /\ LinkedResults(results) # <<>>
    THEN [linkedPairs EXCEPT ![eventId] = PairsOf(LinkedResults(results))]
    ELSE linkedPairs

\* handleItemClick(item), and the call of performSentimentAnalysis in it up
\* to its first await.  The callback was made by the last render: its
\* currentEvent is the event selected before this click.
HandleItemClick(e) ==
    LET markets == MarketsOf(e)
        cachedResults == sentimentCache[CacheKeyOf(markets)]
        sortedResults == TopResults(cachedResults)
    IN  /\ currentEvent' = e
        /\ IF markets = <<>>
           THEN UNCHANGED <<currentMarkets, sentimentResults,
                            filteredSentimentResults, loadingSentiment,
                            linkedPairs, jobs>>
           ELSE /\ currentMarkets' = markets
                /\ IF cachedResults # <<>>
                   THEN /\ sentimentResults' = sortedResults
                        /\ filteredSentimentResults' = sortedResults
                        /\ linkedPairs' =
                               RestoredPairs(currentEvent, sortedResults)
                        /\ loadingSentiment' = FALSE
                        /\ UNCHANGED jobs
                   ELSE /\ BagCardinality(jobs) < MaxJobs
                        /\ loadingSentiment' = TRUE
                        /\ sentimentResults' = <<>>
                        /\ filteredSentimentResults' = <<>>
                        /\ jobs' = jobs (+) SetToBag({NewJob(markets)})
                        /\ UNCHANGED linkedPairs
        /\ searchResults' = <<>>
        /\ searchTerm' = ""
        /\ UNCHANGED <<watchlist, sentimentSearchTerm, sentimentCache,
                       apiEvents, events, eventDataCache, loader, requests,
                       componentVars, extractVars, wrapperVars,
                       closureVars, priceVars>>

\* The promise of market i of job j returns validResults.  When it is the
\* last one, Promise.all resolves and the rest of performSentimentAnalysis
\* runs in the same task: the cache entry, the restored pairs, finally.
MarketResolves(job, i, validResults) ==
    LET rest == jobs (-) SetToBag({job})
        allResults == [job.allResults EXCEPT ![i] = validResults]
        totalResults == Flat(allResults)
        updatedResults == TopResults(sentimentResults \o validResults)
        resultsWithLinkedState ==
            WithLinkedState(totalResults, job.linkedPairsForEvent)
    IN  /\ IF validResults # <<>>
           THEN /\ sentimentResults' = updatedResults
                /\ filteredSentimentResults' = updatedResults
           ELSE UNCHANGED <<sentimentResults, filteredSentimentResults>>
        /\ IF job.pending = {i}
           THEN /\ sentimentCache' =
                       IF totalResults # <<>>
                       THEN [sentimentCache EXCEPT
                                ![job.cacheKey] = resultsWithLinkedState]
                       ELSE sentimentCache
                /\ linkedPairs' =
                       IF totalResults # <<>>
                       THEN RestoredPairs(job.eventId, resultsWithLinkedState)
                       ELSE linkedPairs
                /\ loadingSentiment' = FALSE
                /\ jobs' = rest
           ELSE /\ jobs' = rest (+) SetToBag({[job EXCEPT
                                   !.pending = @ \ {i},
                                   !.allResults = allResults]})
                /\ UNCHANGED <<sentimentCache, linkedPairs, loadingSentiment>>
        /\ UNCHANGED <<watchlist, currentEvent, currentMarkets,
                       sentimentSearchTerm,
                       componentVars, extractVars, wrapperVars,
                   appVars, closureVars, priceVars>>

\* the Add to Watchlist button of the selected event; App renders again
\* before the next click
AddToWatchlist ==
    /\ currentEvent # NoEvent
    /\ ~isInWatchlist(currentEvent)
    /\ watchlist' = addToWatchlist(renderedWatchlist, watchlist, currentEvent)
    /\ renderedWatchlist' = watchlist'
    /\ UNCHANGED <<currentEvent, currentMarkets, sentimentResults,
                   filteredSentimentResults, sentimentSearchTerm,
                   loadingSentiment, linkedPairs, sentimentCache, jobs,
                   componentVars, extractVars, wrapperVars,
                   appVars, priceVars>>

\* the remove button of a watchlist entry; App renders again before the
\* next click
RemoveFromWatchlist(eventId) ==
    /\ isInWatchlist(eventId)
    /\ watchlist' = removeFromWatchlist(watchlist, eventId)
    /\ renderedWatchlist' = watchlist'
    /\ UNCHANGED <<currentEvent, currentMarkets, sentimentResults,
                   filteredSentimentResults, sentimentSearchTerm,
                   loadingSentiment, linkedPairs, sentimentCache, jobs,
                   componentVars, extractVars, wrapperVars,
                   appVars, priceVars>>

\* [...currentPairs, newPair]
PairsAfterLink(pairs, result) == Append(pairs, PairOf(result))

\* currentPairs.filter(pair => !(same market and query))
PairsAfterUnlink(pairs, result) ==
    SelectSeq(pairs, LAMBDA pair : ~SamePair(pair, result))

\* the button of the i-th result shown, on a result that is not linked.
\* The effect on sentimentResults sets filteredSentimentResults again.
LinkSentiment(i) ==
    LET result == filteredSentimentResults[i]
        cacheKey == CacheKeyOf(currentMarkets)
    IN  /\ ListShown
        /\ i \in 1..Len(filteredSentimentResults)
        /\ ~LinkButtonDisabled
        /\ ~result.isLinked
        /\ currentEvent # NoEvent
        /\ Len(linkedPairs[currentEvent]) < MaxPairs
        /\ linkedPairs' = [linkedPairs EXCEPT
                              ![currentEvent] = PairsAfterLink(@, result)]
        /\ sentimentResults' = SetLinked(sentimentResults, result, TRUE)
        /\ filteredSentimentResults' = sentimentResults'
        /\ sentimentCache' = [sentimentCache EXCEPT
                                 ![cacheKey] = SetLinked(@, result, TRUE)]
        /\ UNCHANGED <<watchlist, currentEvent, currentMarkets,
                       sentimentSearchTerm, loadingSentiment, jobs,
                       componentVars, extractVars, wrapperVars,
                   appVars, closureVars, priceVars>>

\* the same button on a result that is linked
UnlinkSentiment(i) ==
    LET result == filteredSentimentResults[i]
        cacheKey == CacheKeyOf(currentMarkets)
    IN  /\ ListShown
        /\ i \in 1..Len(filteredSentimentResults)
        /\ ~LinkButtonDisabled
        /\ result.isLinked
        /\ currentEvent # NoEvent
        /\ linkedPairs' = [linkedPairs EXCEPT
                              ![currentEvent] = PairsAfterUnlink(@, result)]
        /\ sentimentResults' = SetLinked(sentimentResults, result, FALSE)
        /\ filteredSentimentResults' = sentimentResults'
        /\ sentimentCache' = [sentimentCache EXCEPT
                                 ![cacheKey] = SetLinked(@, result, FALSE)]
        /\ UNCHANGED <<watchlist, currentEvent, currentMarkets,
                       sentimentSearchTerm, loadingSentiment, jobs,
                       componentVars, extractVars, wrapperVars,
                   appVars, closureVars, priceVars>>

\* typing into the sentiment search box, enabled when there are results
HandleSentimentSearch(value) ==
    /\ ~loadingSentiment
    /\ sentimentResults # <<>>
    /\ sentimentSearchTerm' = value
    /\ filteredSentimentResults' =
           IF value = "" THEN sentimentResults
           ELSE SortByCorrelation(
                    SelectSeq(sentimentResults, LAMBDA r : Matches(r, value)))
    /\ UNCHANGED <<watchlist, currentEvent, currentMarkets, sentimentResults,
                   loadingSentiment, linkedPairs, sentimentCache, jobs,
                   componentVars, extractVars, wrapperVars,
                   appVars, closureVars, priceVars>>

\* App after its first render; no CCA component is followed
InitDash ==
    /\ seriesA = <<>>
    /\ seriesB = <<>>
    /\ maxLag = 0
    /\ ComponentFresh
    /\ ExtractIdle
    /\ WrapperIdle
    /\ DashFresh
    /\ AppIdle
    /\ ClosuresFresh
    /\ PricesIdle

NextDash ==
    \/ \E e \in EventIds : HandleItemClick(e)
    \/ \E job \in BagToSet(jobs) : \E i \in job.pending :
           \E validResults \in ValidResults(job.markets[i]) :
               MarketResolves(job, i, validResults)
    \/ AddToWatchlist
    \/ \E e \in EventIds : RemoveFromWatchlist(e)
    \/ \E i \in 1..Len(filteredSentimentResults) : LinkSentiment(i)
    \/ \E i \in 1..Len(filteredSentimentResults) : UnlinkSentiment(i)
    \/ \E value \in SearchValues : HandleSentimentSearch(value)

SpecDash == InitDash /\ [][NextDash]_vars

\* The call of performSentimentAnalysis that a click on event e starts
\* while the event selected before was previous.
JobOfClick(e, previous) ==
    [cacheKey |-> CacheKeyOf(MarketsOf(e)),
     markets |-> Slice(MarketsOf(e), 0, 5),
     eventId |-> previous,
     linkedPairsForEvent |-> <<>>,
     pending |-> 1..Len(Slice(MarketsOf(e), 0, 5)),
     allResults |-> [i \in 1..Len(Slice(MarketsOf(e), 0, 5)) |-> <<>>]]

\* App after an event was clicked twice in a row, before any result of
\* its first analysis has arrived: two analyses of the event are in
\* flight.  (SpecDash reaches this state when MaxJobs is 2.)
InitLink ==
    /\ seriesA = <<>>
    /\ seriesB = <<>>
    /\ maxLag = 0
    /\ ComponentFresh
    /\ ExtractIdle
    /\ WrapperIdle
    /\ watchlist = <<>>
    /\ currentEvent \in EventIds
    /\ currentMarkets = MarketsOf(currentEvent)
    /\ sentimentResults = <<>>
    /\ filteredSentimentResults = <<>>
    /\ sentimentSearchTerm = ""
    /\ loadingSentiment = TRUE
    /\ linkedPairs = [e \in EventIds |-> <<>>]
    /\ sentimentCache = [k \in CacheKeys |-> <<>>]
    /\ jobs = SetToBag({JobOfClick(currentEvent, NoEvent),
                        JobOfClick(currentEvent, currentEvent)})
    /\ AppIdle
    /\ ClosuresFresh
    /\ PricesIdle

SpecLink == InitLink /\ [][NextDash]_vars

-----------------------------------------------------------------------------
(* The event list of App: the effect that fetches it, the search box, and   *)
(* the watchlist callbacks as the last render made them.  An event is its   *)
(* id; its title is the id.  eventDataCache holds at most the entry         *)
(* main_events: it is <<>> without the entry and <<list>> with it.          *)

\* const limit = 500, scaled down
PageLimit == 2

\* the number of requests for events after which no more are followed
MaxRequests == 3

\* the length of the watchlist after which no more adds are followed
MaxWatchlist == 3

\* .slice(0, 10) of the matches
SearchLimit == 10

\* cachedData && cachedData.length > 0
CacheUsable(cache) == cache # <<>> /\ Len(cache[1]) > 0

\* the batch /api/events?limit=..&offset=.. answers with
BatchAt(offset) == Slice(apiEvents, offset, offset + PageLimit)

\* The effect [eventDataCache] runs: fetchAll up to its first await.
EffectFetchAll ==
    /\ loader.pc = "effect"
    /\ IF CacheUsable(eventDataCache)
       THEN /\ events' = eventDataCache[1]
            /\ loader' = [pc |-> "idle"]
            /\ UNCHANGED requests
       ELSE /\ requests < MaxRequests
            /\ requests' = requests + 1
            /\ loader' = [pc |-> "fetching", offset |-> 0, allData |-> <<>>]
            /\ UNCHANGED events
    /\ UNCHANGED <<apiEvents, eventDataCache, searchTerm, searchResults,
                   componentVars, extractVars, wrapperVars, dashVars,
                   closureVars, priceVars>>

\* A batch arrives: one pass of the while loop, then either the next
\* request or setData and setEventDataCache.  The new Map makes the effect
\* run again.
BatchArrives ==
    /\ loader.pc = "fetching"
    /\ LET batch == BatchAt(loader.offset)
           allData == loader.allData \o batch
       IN  IF batch # <<>> /\ Len(batch) >= PageLimit
           THEN /\ requests < MaxRequests
                /\ requests' = requests + 1
                /\ loader' = [loader EXCEPT !.offset = @ + PageLimit,
                                            !.allData = allData]
                /\ UNCHANGED <<events, eventDataCache>>
           ELSE /\ events' = allData
                /\ eventDataCache' = <<allData>>
                /\ loader' = [pc |-> "effect"]
                /\ UNCHANGED requests
    /\ UNCHANGED <<apiEvents, searchTerm, searchResults,
                   componentVars, extractVars, wrapperVars, dashVars,
                   closureVars, priceVars>>

\* fetch or response.json() rejects: fetchAll().catch logs it
FetchAllFails ==
    /\ loader.pc = "fetching"
    /\ loader' = [pc |-> "idle"]
    /\ UNCHANGED <<apiEvents, events, eventDataCache, requests, searchTerm,
                   searchResults,
                   componentVars, extractVars, wrapperVars, dashVars,
                   closureVars, priceVars>>

\* the items fuse matches for a term: every title has an e, and a longer
\* term matches the title equal to it
TitleMatches(title, term) == term = "e" \/ title = term

\* fuse.search(term).map(result => result.item)
FuseSearch(list, term) == SelectSeq(list, LAMBDA item : TitleMatches(item, term))

\* the matches shown for a term: none for the empty term, else the first
\* ten
MatchesFor(list, term) ==
    IF term = "" THEN <<>> ELSE Slice(FuseSearch(list, term), 0, SearchLimit)

\* useMemo [searchTerm, fuse]: the value of the last render, which had the
\* search term and the events of the state
debouncedSearchResults == MatchesFor(events, searchTerm)

\* handleSearch(value)
HandleSearch(value) ==
    /\ searchTerm' = value
    /\ searchResults' = IF value = "" THEN <<>> ELSE debouncedSearchResults
    /\ UNCHANGED <<apiEvents, events, eventDataCache, loader, requests,
                   componentVars, extractVars, wrapperVars, dashVars,
                   closureVars, priceVars>>

\* a call of addToWatchlist by a callback of the last render
CallAddToWatchlist(event) ==
    /\ Len(watchlist) < MaxWatchlist
    /\ watchlist' = addToWatchlist(renderedWatchlist, watchlist, event)
    /\ UNCHANGED <<currentEvent, currentMarkets, sentimentResults,
                   filteredSentimentResults, sentimentSearchTerm,
                   loadingSentiment, linkedPairs, sentimentCache, jobs,
                   componentVars, extractVars, wrapperVars, appVars,
                   closureVars, priceVars>>

\* a call of removeFromWatchlist by a callback of the last render
CallRemoveFromWatchlist(eventId) ==
    /\ watchlist' = removeFromWatchlist(watchlist, eventId)
    /\ UNCHANGED <<currentEvent, currentMarkets, sentimentResults,
                   filteredSentimentResults, sentimentSearchTerm,
                   loadingSentiment, linkedPairs, sentimentCache, jobs,
                   componentVars, extractVars, wrapperVars, appVars,
                   closureVars, priceVars>>

\* App renders again: the callbacks are made anew from the state
Rerender ==
    /\ renderedWatchlist # watchlist
    /\ renderedWatchlist' = watchlist
    /\ UNCHANGED <<componentVars, extractVars, wrapperVars, dashVars,
                   appVars, priceVars>>

\* App after its first render, with its effect about to run
InitApp ==
    /\ seriesA = <<>>
    /\ seriesB = <<>>
    /\ maxLag = 0
    /\ ComponentFresh
    /\ ExtractIdle
    /\ WrapperIdle
    /\ DashFresh
    /\ apiEvents \in ApiEventLists
    /\ events = <<>>
    /\ eventDataCache = <<>>
    /\ loader = [pc |-> "effect"]
    /\ requests = 0
    /\ searchTerm = ""
    /\ searchResults = <<>>
    /\ ClosuresFresh
    /\ PricesIdle

NextApp ==
    \/ EffectFetchAll
    \/ BatchArrives
    \/ FetchAllFails
    \/ \E value \in SearchTerms : HandleSearch(value)
    \/ \E e \in EventIds : CallAddToWatchlist(e)
    \/ \E e \in EventIds : CallRemoveFromWatchlist(e)
    \/ Rerender

SpecApp == InitApp /\ [][NextApp]_vars

-----------------------------------------------------------------------------
(* The price histories of App: fetchPriceHistory with its cache and        *)
(* fetchAndGraphMultipleTimeSeries.  Time is counted in units of which     *)
(* cacheExpiry is a few, instead of in milliseconds.  A value               *)
(* that may be null is <<>> for null and <<v>> for v; a cache entry is      *)
(* [data, timestamp].  A call of fetchPriceHistory is the record            *)
(* [clobID, cacheKey, now, state, value] with state cached, pending, ok or  *)
(* failed.  The events have no cache key in common, so a behaviour follows  *)
(* the price histories of one event, the selected one.                      *)

\* the last time followed
MaxTime == 3

\* calls of fetchAndGraphMultipleTimeSeries in flight
MaxGraphCalls == 1

\* market callbacks of performSentimentAnalysis in flight when another
\* analysis may start
MaxAnalysisCalls == 1

\* const cacheExpiry = 5 * 60 * 1000, scaled down
cacheExpiry == 2

\* what prices-history answers with: {history: [{t, p}, ..]}, a point
\* being its price p
PriceDatas == {[history |-> <<>>], [history |-> <<50>>]}

\* how a request ends: response.json() of an OK response, a response that
\* is not OK, or fetch or response.json() throwing
PriceOutcomes ==
    {[kind |-> "ok", data |-> d] : d \in PriceDatas}
        \cup {[kind |-> "not ok", data |-> [history |-> <<>>]],
              [kind |-> "thrown", data |-> [history |-> <<>>]]}

\* cachedData && (now - cachedData.timestamp) < cacheExpiry
Fresh(cachedData, now) ==
    /\ cachedData # <<>>
    /\ now - cachedData[1].timestamp < cacheExpiry

\* fetchPriceHistory(clobID, interval, fidelity) up to its return of the
\* cached data or its await of fetch; cachedData is
\* priceHistoryCache.get(cacheKey) of the render that made the callback
fetchPriceHistory(cachedData, clobID, interval, fidelity, now) ==
    LET cacheKey == PriceKeyOf(clobID, interval, fidelity)
    IN  IF Fresh(cachedData, now)
        THEN [clobID |-> clobID, cacheKey |-> cacheKey, now |-> now,
              state |-> "cached", value |-> <<cachedData[1].data>>]
        ELSE [clobID |-> clobID, cacheKey |-> cacheKey, now |-> now,
              state |-> "pending", value |-> <<>>]

\* the rest of fetchPriceHistory: return priceData, or null from the catch
\* clause
Settled(call, outcome) ==
    IF outcome.kind = "ok"
    THEN [call EXCEPT !.state = "ok", !.value = <<outcome.data>>]
    ELSE [call EXCEPT !.state = "failed", !.value = <<>>]

\* newCache.set(cacheKey, {data: priceData, timestamp: now}) after an OK
\* response; the catch clause sets nothing
CacheAfter(cache, call, outcome) ==
    IF outcome.kind = "ok"
    THEN [cache EXCEPT ![call.cacheKey] =
             <<[data |-> outcome.data, timestamp |-> call.now]>>]
    ELSE cache

\* the calls a step made, as [cacheKey, requested]
CallsMade(calls) ==
    {[cacheKey |-> c.cacheKey, requested |-> c.state = "pending"] : c \in calls}

\* priceData?.history
HistoryOf(value) == IF value = <<>> THEN <<>> ELSE value[1].history

\* a series is kept whatever was returned
HasHistoryAlways(value) == TRUE

\* priceData?.history?.length > 0
HasHistory(value) == Len(HistoryOf(value)) > 0

\* priceData.history[priceData.history.length - 1].p
LatestPrice(history) == IF history = <<>> THEN 0 ELSE history[Len(history)]

\* the series made of a call that returned
TimeSeriesOf(call) ==
    [clobID |-> call.clobID,
     history |-> HistoryOf(call.value),
     latestPrice |-> LatestPrice(HistoryOf(call.value))]

InsertByLatestPrice(r, sorted) ==
    LET k == Cardinality({n \in 1..Len(sorted) :
                            sorted[n].latestPrice >= r.latestPrice})
    IN  SubSeq(sorted, 1, k) \o <<r>> \o SubSeq(sorted, k + 1, Len(sorted))

\* .sort((a, b) => b.latestPrice - a.latestPrice)
RECURSIVE SortByLatestPrice(_)
SortByLatestPrice(series) ==
    IF series = <<>> THEN <<>>
    ELSE InsertByLatestPrice(series[Len(series)],
            SortByLatestPrice(SubSeq(series, 1, Len(series) - 1)))

\* the token ids fetchAndGraphMultipleTimeSeries asks for: both of a single
\* market, else the first of each of the top five markets
ClobsToGraph(markets) ==
    IF Len(markets) = 1 THEN ClobIdsOf(markets[1])
    ELSE [i \in 1..Len(Slice(markets, 0, 5)) |->
             ClobIdsOf(Slice(markets, 0, 5)[i])[1]]

\* what setAllTimeSeries is called with once every call has returned
AllSeries(calls, isSingleMarket) ==
    LET kept == SelectSeq(calls, LAMBDA c : HasHistory(c.value))
        allSeries == [k \in 1..Len(kept) |-> TimeSeriesOf(kept[k])]
    IN  IF isSingleMarket THEN allSeries ELSE SortByLatestPrice(allSeries)

AllReturned(calls) == \A k \in 1..Len(calls) : calls[k].state # "pending"

\* fetchAndGraphMultipleTimeSeries(markets, interval, fidelity) up to its
\* await; when every call returns cached data, to its end
fetchAndGraphMultipleTimeSeries(markets, interval, fidelity) ==
    LET clobs == ClobsToGraph(markets)
        calls == [i \in 1..Len(clobs) |->
                     fetchPriceHistory(
                         priceHistoryCache[PriceKeyOf(clobs[i], interval,
                                                      fidelity)],
                         clobs[i], interval, fidelity, clock)]
    IN  /\ BagCardinality(graphCalls) < MaxGraphCalls
        /\ called' = CallsMade({calls[i] : i \in 1..Len(calls)})
        /\ returned' = {calls[i] : i \in {k \in 1..Len(calls) :
                                            calls[k].state = "cached"}}
        /\ IF AllReturned(calls)
           THEN /\ allTimeSeries' = AllSeries(calls, Len(markets) = 1)
                /\ loadingPrices' = FALSE
                /\ UNCHANGED graphCalls
           ELSE /\ graphCalls' = graphCalls (+) SetToBag({
                       [calls |-> calls, isSingleMarket |-> Len(markets) = 1]})
                /\ loadingPrices' = TRUE
                /\ UNCHANGED allTimeSeries

\* handleItemClick on the selected event, as far as price histories go:
\* fetchAndGraphMultipleTimeSeries, and the market callbacks of
\* performSentimentAnalysis, which wait for generateQueries and then call
\* fetchPriceHistory of this render.
ClickLoadsPrices ==
    LET markets == currentMarkets
        config == DefaultInterval
        top5Markets == Slice(markets, 0, 5)
    IN  /\ markets # <<>>
        /\ BagCardinality(analysisCalls) < MaxAnalysisCalls
        /\ fetchAndGraphMultipleTimeSeries(markets, config.interval,
                                           config.fidelity)
        /\ analysisCalls' = analysisCalls (+) SetToBag({
               [clobID |-> ClobIdsOf(top5Markets[i])[1],
                cachedData |-> priceHistoryCache[PriceKeyOf(
                                   ClobIdsOf(top5Markets[i])[1], "1m", "180")],
                call |-> <<>>] : i \in 1..Len(top5Markets)})
        /\ UNCHANGED <<clock, priceHistoryCache,
                       componentVars, extractVars, wrapperVars, dashVars,
                       appVars, closureVars>>

\* handleIntervalChange(interval) for the interval the chart starts with
HandleIntervalChange ==
    LET config == DefaultInterval
    IN  /\ Len(currentMarkets) > 0
        /\ fetchAndGraphMultipleTimeSeries(currentMarkets, config.interval,
                                           config.fidelity)
        /\ UNCHANGED <<clock, priceHistoryCache, analysisCalls,
                       componentVars, extractVars, wrapperVars, dashVars,
                       appVars, closureVars>>

\* generateQueries has resolved in a market callback of
\* performSentimentAnalysis: fetchPriceHistory(clobIds[0], '1m', '180') of
\* the render that started the analysis
AnalysisFetchesPrice(a) ==
    LET call == fetchPriceHistory(a.cachedData, a.clobID, "1m", "180", clock)
        rest == analysisCalls (-) SetToBag({a})
    IN  /\ a.call = <<>>
        /\ called' = CallsMade({call})
        /\ IF call.state = "cached"
           THEN /\ returned' = {call}
                /\ analysisCalls' = rest
           ELSE /\ returned' = {}
                /\ analysisCalls' =
                       rest (+) SetToBag({[a EXCEPT !.call = <<call>>]})
        /\ UNCHANGED <<clock, priceHistoryCache, graphCalls, allTimeSeries,
                       loadingPrices,
                       componentVars, extractVars, wrapperVars, dashVars,
                       appVars, closureVars>>

\* the request of a market callback of performSentimentAnalysis ends
AnalysisPriceArrives(a, outcome) ==
    /\ a.call # <<>>
    /\ called' = {}
    /\ returned' = {Settled(a.call[1], outcome)}
    /\ priceHistoryCache' = CacheAfter(priceHistoryCache, a.call[1], outcome)
    /\ analysisCalls' = analysisCalls (-) SetToBag({a})
    /\ UNCHANGED <<clock, graphCalls, allTimeSeries, loadingPrices,
                   componentVars, extractVars, wrapperVars, dashVars,
                   appVars, closureVars>>

\* The request of call i of a fetchAndGraphMultipleTimeSeries ends.  When
\* it is the last one, Promise.all resolves and the rest runs in the same
\* task: setAllTimeSeries, and setLoadingPrices(false) in finally.
GraphPriceArrives(g, i, outcome) ==
    LET rest == graphCalls (-) SetToBag({g})
        calls == [g.calls EXCEPT ![i] = Settled(@, outcome)]
    IN  /\ g.calls[i].state = "pending"
        /\ called' = {}
        /\ returned' = {calls[i]}
        /\ priceHistoryCache' =
               CacheAfter(priceHistoryCache, g.calls[i], outcome)
        /\ IF AllReturned(calls)
           THEN /\ allTimeSeries' = AllSeries(calls, g.isSingleMarket)
                /\ loadingPrices' = FALSE
                /\ graphCalls' = rest
           ELSE /\ graphCalls' = rest (+) SetToBag({[g EXCEPT !.calls = calls]})
                /\ UNCHANGED <<allTimeSeries, loadingPrices>>
        /\ UNCHANGED <<clock, analysisCalls,
                       componentVars, extractVars, wrapperVars, dashVars,
                       appVars, closureVars>>

\* time passes
Tick ==
    /\ clock < MaxTime
    /\ clock' = clock + 1
    /\ called' = {}
    /\ returned' = {}
    /\ UNCHANGED <<priceHistoryCache, graphCalls, analysisCalls,
                   allTimeSeries, loadingPrices,
                   componentVars, extractVars, wrapperVars, dashVars,
                   appVars, closureVars>>

\* App with an event selected and nothing in flight
InitPrices ==
    /\ seriesA = <<>>
    /\ seriesB = <<>>
    /\ maxLag = 0
    /\ ComponentFresh
    /\ ExtractIdle
    /\ WrapperIdle
    /\ watchlist = <<>>
    /\ currentEvent \in EventIds
    /\ currentMarkets = MarketsOf(currentEvent)
    /\ sentimentResults = <<>>
    /\ filteredSentimentResults = <<>>
    /\ sentimentSearchTerm = ""
    /\ loadingSentiment = FALSE
    /\ linkedPairs = [e \in EventIds |-> <<>>]
    /\ sentimentCache = [k \in CacheKeys |-> <<>>]
    /\ jobs = EmptyBag
    /\ AppIdle
    /\ ClosuresFresh
    /\ PricesIdle

NextPrices ==
    \/ ClickLoadsPrices
    \/ \E a \in BagToSet(analysisCalls) : AnalysisFetchesPrice(a)
    \/ \E a \in BagToSet(analysisCalls) : \E outcome \in PriceOutcomes :
           AnalysisPriceArrives(a, outcome)
    \/ \E g \in BagToSet(graphCalls) : \E i \in 1..Len(g.calls) :
           \E outcome \in PriceOutcomes : GraphPriceArrives(g, i, outcome)
    \/ Tick

SpecPrices == InitPrices /\ [][NextPrices]_vars

\* the chart alone: the interval buttons, the requests and the time
NextGraph ==
    \/ HandleIntervalChange
    \/ \E g \in BagToSet(graphCalls) : \E i \in 1..Len(g.calls) :
           \E outcome \in PriceOutcomes : GraphPriceArrives(g, i, outcome)
    \/ Tick

SpecGraph == InitPrices /\ [][NextGraph]_vars

-----------------------------------------------------------------------------
(* Properties *)

One == FromInt(1)

Hundred == FromInt(100)

IsConstant(s) == \A i, j \in 1..Len(s) : s[i] = s[j]

AllZero(s) == \A i \in 1..Len(s) : s[i] = Zero

NegSeries(s) == [i \in 1..Len(s) |-> Neg(s[i])]

\* a <= b
Leq(a, b) ==
    IF a.n <= 0 /\ b.n >= 0 THEN TRUE
    ELSE IF a.n > 0 /\ b.n <= 0 THEN FALSE
    ELSE IF a.n > 0 THEN ~GtNonNeg(a, b)
    ELSE ~GtNonNeg(Abs(b), Abs(a))

InRange(score) == Leq(Zero, score) /\ Leq(score, Hundred)

\* the effect has run past the extraction of two non-empty series
Extracted == pc \in {"sweep", "done"} /\ Len(valuesA) > 0

\* the loop body has run at least once; lag - 1 is the lag it last used
Swept == pc \in {"sweep", "done"} /\ evals > 0

C2_ShortReportsZero ==
    (pc = "done" /\ Min(Len(seriesA), Len(seriesB)) < 2)
        => (reported = <<Zero>> /\ evals = 0)

\* C3: every run of the effect ends with a score reported, and a degenerate
\* input (an empty series, an aligned length below 2, a zero-variance
\* series) ends with the score 0 reported.
C3_AlwaysReports ==
    pc = "done" =>
        /\ Len(reported) = 1
        /\ (\/ Len(seriesA) = 0
            \/ Len(seriesB) = 0
            \/ Min(Len(seriesA), Len(seriesB)) < 2
            \/ IsConstant(truncatedA)
            \/ IsConstant(truncatedB)) => reported = <<Zero>>

C5_SelfCorrelation ==
    (valuesA = valuesB /\ Len(valuesA) >= 2 /\ ~IsConstant(valuesA)) =>
        /\ Swept => Leq(Abs(lastCorrelation), One)
        /\ (Swept /\ lag = 1) => lastCorrelation = One
        /\ pc = "done" => reported = <<Hundred>>

\* a finished sweep of a varying series of length 3 against itself in
\* which the last lag correlated strictly below 1
C5_Witness ==
    /\ pc = "done"
    /\ valuesA = valuesB
    /\ Len(valuesA) = 3
    /\ ~IsConstant(valuesA)
    /\ maxLag >= 1
    /\ lastCorrelation # One
    /\ reported = <<Hundred>>

\* C6 as stated: for every series x, the score reported for x against its
\* element-wise negation is 100.
C6_NegationScoresHundred ==
    (pc = "done" /\ Len(reported) > 0 /\ valuesB = NegSeries(valuesA))
        => reported = <<Hundred>>

\* C6 amended: for every non-constant series x of length >= 2 the score
\* reported for (x, -x) is 100; and for every series x for which a score
\* is reported, the score for (x, -x) is the score for (x, x), which is 0
\* when x is constant or has length 1.
C6_NegationAmended ==
    (pc = "done" /\ Len(reported) > 0 /\ valuesB = NegSeries(valuesA)) =>
        /\ (Len(valuesA) >= 2 /\ ~IsConstant(valuesA))
              => (reported = <<Hundred>> /\ Abs(maxCorrelation) = One)
        /\ (Len(valuesA) < 2 \/ IsConstant(valuesA)) => reported = <<Zero>>
        /\ Len(valuesA) >= 2
              => reported[1] = crossCorrelationAnalysis(valuesA, valuesA, maxLag)

\* a finished sweep of a varying series of length 3 against its negation
\* whose best correlation is negative
C6_Witness ==
    /\ pc = "done"
    /\ valuesB = NegSeries(valuesA)
    /\ Len(valuesA) = 3
    /\ ~IsConstant(valuesA)
    /\ maxCorrelation = Neg(One)
    /\ reported = <<Hundred>>

\* the number the claim assigns to a record: the value field if numeric,
\* else the first numeric non-timestamp field in creation order, else 0
ClaimedValue(item) ==
    IF Get(item, "value").type = "number" THEN Get(item, "value").num
    ELSE IF \E i \in 1..Len(item) :
                item[i][1] # "timestamp" /\ item[i][2].type = "number"
    THEN item[CHOOSE i \in 1..Len(item) :
                /\ item[i][1] # "timestamp" /\ item[i][2].type = "number"
                /\ \A j \in 1..(i - 1) :
                      item[j][1] = "timestamp" \/ item[j][2].type # "number"][2].num
    ELSE Zero

IsCandidate(field) == field[1] # "timestamp" /\ field[2].type = "number"

\* C7 as stated: extractValues yields one number per record, in order: the
\* numeric value field, else the first numeric field other than timestamp
\* in creation order, else 0.
C7_ExtractInsertionOrder ==
    pc = "extracted" =>
        /\ Len(extracted) = Len(data)
        /\ \A i \in 1..Len(data) : extracted[i] = ClaimedValue(data[i])

\* C7 amended: as stated, except that the fields are scanned in the order
\* of Object.entries: a numeric field with an integer-like key is taken
\* before every field with a string key, whatever the creation order.
C7_ExtractEntriesOrder ==
    pc = "extracted" =>
        /\ Len(extracted) = Len(data)
        /\ \A i \in 1..Len(data) :
              LET item == data[i]
                  candidates == {k \in 1..Len(item) : IsCandidate(item[k])}
                  indexed == {k \in candidates : item[k][1] \in IndexKeys}
              IN  IF Get(item, "value").type = "number"
                  THEN extracted[i] = Get(item, "value").num
                  ELSE IF candidates = {} THEN extracted[i] = Zero
                  ELSE IF indexed # {}
                  THEN \E k \in indexed : extracted[i] = item[k][2].num
                  ELSE \E k \in candidates :
                          /\ extracted[i] = item[k][2].num
                          /\ \A j \in candidates : k <= j

\* two records extracted in order: the first was given a price and then a
\* property "7", and "7" is taken; the second has only a numeric timestamp
C7_Witness ==
    /\ pc = "extracted"
    /\ Len(data) = 2
    /\ data[1] = <<(<<"price", NumberValue(2)>>), (<<"7", NumberValue(3)>>)>>
    /\ data[2] = <<(<<"timestamp", NumberValue(4)>>)>>
    /\ extracted = <<FromInt(3), Zero>>

\* C8: both aligned series are the first m = min(|A|, |B|) extracted
\* values of their input, unchanged and in order, where the extracted
\* values are the value fields of the records.
C8_TruncationKeepsPrefix ==
    Extracted =>
        LET m == Min(Len(seriesA), Len(seriesB))
        IN  /\ Len(truncatedA) = m
            /\ Len(truncatedB) = m
            /\ \A i \in 1..m :
                  /\ truncatedA[i] = Get(seriesA[i], "value").num
                  /\ truncatedB[i] = Get(seriesB[i], "value").num

\* series A of length 3 cut to the length 2 of series B, dropping a last
\* value that differs from the first
C8_Witness ==
    /\ Extracted
    /\ Len(valuesA) = 3
    /\ Len(valuesB) = 2
    /\ valuesA[3] # valuesA[1]
    /\ truncatedA = <<valuesA[1], valuesA[2]>>

\* C9: every shifted series the loop builds has the length n of the series
\* it shifts.
C9_ShiftKeepsLength ==
    Swept => Len(shiftedB) = Len(normalizedB)

\* C10: with L the lag just used, n the length of the series s and r the
\* shifted series: for L > 0, r holds s[i+L] at the n-L leading positions
\* and 0 at its last L positions; for L < 0, r holds 0 at its first |L|
\* positions and s[i-|L|] from there on; for L = 0, r equals s.
C10_ShiftPlacement ==
    Swept =>
        LET L == lag - 1
            s == normalizedB
            r == shiftedB
            n == Len(normalizedB)
        IN  /\ L > 0 =>
                /\ Len(r) >= L
                /\ \A i \in 1..(n - L) : i <= Len(r) /\ r[i] = s[i + L]
                /\ \A i \in 1..Len(r) :
                      /\ i > Len(r) - L => r[i] = Zero
                      /\ i <= n - L \/ i > Len(r) - L
            /\ L < 0 =>
                /\ Len(r) >= -L
                /\ \A i \in 1..(n + L) : (i - L) <= Len(r)
                /\ \A i \in 1..Len(r) :
                      /\ i <= -L => r[i] = Zero
                      /\ i > -L => (i + L <= n /\ r[i] = s[i + L])
            /\ L = 0 => r = s

\* a series of three non-zero values just shifted by lag 1
C10_Witness ==
    /\ Swept
    /\ lag - 1 = 1
    /\ Len(normalizedB) = 3
    /\ \A i \in 1..3 : ~IsZero(normalizedB[i])
    /\ shiftedB = <<normalizedB[2], normalizedB[3], Zero>>


-----------------------------------------------------------------------------
(* The sweep as a maximum over lags *)

\* sum of x[i]*y[i]
SumOfProducts(x, y) == SumFrom([i \in 1..Len(x) |-> Mul(x[i], y[i])], 1)

\* sum of (x[i] - mean x)*(y[i] - mean y), from the sums sx of x, sy of y and
\* sxy of the products: sxy - sx*sy/n
Centered(sxy, sx, sy, n) == Sub(sxy, Div(Mul(sx, sy), FromInt(n)))

\* sum of (x[i] - mean x)*(y[i] - mean y)
CenteredProducts(x, y) ==
    Centered(SumOfProducts(x, y), SumFrom(x, 1), SumFrom(y, 1), Len(x))

\* the Pearson correlation of two arrays of one length, 0 when one of them
\* has no spread
Pearson(x, y) ==
    LET sx  == SumFrom(x, 1)
        sy  == SumFrom(y, 1)
        cxx == Centered(SumOfProducts(x, x), sx, sx, Len(x))
        cyy == Centered(SumOfProducts(y, y), sy, sy, Len(x))
        cxy == Centered(SumOfProducts(x, y), sx, sy, Len(x))
    IN  IF IsZero(cxx) \/ IsZero(cyy) THEN Zero
        ELSE Div(cxy, Sqrt(Mul(cxx, cyy)))

\* s moved by l places with zeros entering: the element at i is s[i + l]
Shifted(s, l) ==
    [i \in 1..Len(s) |-> IF i + l \in 1..Len(s) THEN s[i + l] ELSE Zero]

\* the correlation the sweep is to find at lag l
CorrelationAt(l) == Pearson(normalizedA, Shifted(normalizedB, l))

\* |a| > |b|: the squares of a and b are fractions p/q in lowest terms, and
\* pa/qa > pb/qb when pa*qb > pb*qa
AbsGreater(a, b) ==
    LET sa == SquareOf(a)
        sb == SquareOf(b)
    IN  sa.n * sb.d > sb.n * sa.d

\* C11: the passes of the loop use the lags -maxLag, ..., maxLag once each in
\* ascending order, each pass computes the Pearson correlation (with the
\* means of both series computed anew) of normalize(A) and normalize(B)
\* shifted by its lag, and the score reported when the loop is left is 100
\* times the greatest absolute value among these correlations.
C11_ScoreIsMaximumOverLags ==
    [][/\ (pc = "mounted" /\ pc' = "sweep") =>
              /\ lag' = -maxLag
              /\ evals' = 0
              /\ normalizedA' = normalize(truncatedA')
              /\ normalizedB' = normalize(truncatedB')
       /\ (pc = "sweep" /\ pc' = "sweep") =>
              /\ lag <= maxLag
              /\ lag' = lag + 1
              /\ evals' = evals + 1
       /\ (pc = "sweep" /\ pc' = "done") =>
              LET abs == [l \in -maxLag..maxLag |-> Abs(CorrelationAt(l))]
              IN  /\ lag = maxLag + 1
                  /\ evals = 2 * maxLag + 1
                  /\ Len(reported') = 1
                  /\ \E l \in -maxLag..maxLag :
                         reported'[1] = Mul(Hundred, abs[l])
                  /\ \A l \in -maxLag..maxLag :
                         Leq(Mul(Hundred, abs[l]), reported'[1])]_vars

\* a finished sweep whose greatest absolute correlation was found at a lag
\* other than 0, and is neither 0 nor 1
C11_Witness ==
    /\ pc = "done"
    /\ maxLag >= 2
    /\ bestLag # <<>>
    /\ bestLag # <<0>>
    /\ reported # <<Zero>>
    /\ reported # <<Hundred>>

\* the second series is the ramp shifted right by 2, and maxLag is 5
IsScenario ==
    /\ seriesA = SeriesOf(ScenarioX)
    /\ seriesB = SeriesOf(ShiftRight(ScenarioX, 2))
    /\ maxLag = 5

\* 100 * (13/341) * sqrt(682), about 99.56
ScenarioScore == MkNum(1300, 341, 682)

\* C12 as stated: for x = 1..10, y = x shifted right by 2 and maxLag 5 the
\* sweep has its greatest absolute correlation at lag -2 or +2, and the
\* score is strictly below 100.
C12_BestLagTwo ==
    (pc = "done" /\ IsScenario) =>
        /\ bestLag \in {<<-2>>, <<2>>}
        /\ Len(reported) = 1
        /\ Leq(reported[1], Hundred)
        /\ reported[1] # Hundred

\* C12 amended: in that scenario the greatest absolute correlation is the
\* one at lag 0, and the score is 100*(13/341)*sqrt(682), strictly between 0
\* and 100.
C12_BestLagZero ==
    (pc = "done" /\ IsScenario) =>
        /\ bestLag = <<0>>
        /\ reported = <<ScenarioScore>>
        /\ Leq(reported[1], Hundred)
        /\ reported[1] # Hundred
        /\ ~IsZero(reported[1])

\* the scenario's sweep has ended after its 11 passes
C12_Witness ==
    /\ pc = "done"
    /\ IsScenario
    /\ evals = 11
    /\ Len(reported) = 1

\* C13: maxCorrelation is 0 when the loop starts, and a pass replaces it
\* (by that pass's correlation) exactly when the absolute value of that
\* correlation is strictly greater than the absolute value held; so a later
\* lag with an equal absolute correlation does not replace an earlier one.
C13_ReplacedOnlyWhenGreater ==
    [][/\ (pc = "mounted" /\ pc' = "sweep") =>
              (maxCorrelation' = Zero /\ bestLag' = <<>>)
       /\ (pc = "sweep" /\ lag' = lag + 1) =>
              IF AbsGreater(lastCorrelation', maxCorrelation)
              THEN maxCorrelation' = lastCorrelation' /\ bestLag' = <<lag>>
              ELSE maxCorrelation' = maxCorrelation /\ bestLag' = bestLag]_vars

\* a pass met a correlation equal in absolute value, opposite in sign, to
\* the best one, which an earlier lag keeps
C13_Witness ==
    /\ Swept
    /\ ~IsZero(lastCorrelation)
    /\ lastCorrelation = Neg(maxCorrelation)
    /\ bestLag # <<lag - 1>>
    /\ bestLag # <<>>

\* v is a number, not the result of a division by 0
IsFinite(v) == v.d > 0

\* C14: calculateCorrelation returns 0 when the arrays differ in length or
\* are empty and when one of the two sums of squared deviations is 0;
\* otherwise it returns a finite number, the sum of the products of the
\* deviations divided by the square root of the product of the two sums of
\* squares.
C14_PearsonGuarded ==
    pc = "returned" =>
        LET x == normalizedA
            y == shiftedB
        IN  IF Len(x) # Len(y) \/ Len(x) = 0 THEN lastCorrelation = Zero
            ELSE IF \/ IsZero(CenteredProducts(x, x))
                    \/ IsZero(CenteredProducts(y, y))
                 THEN lastCorrelation = Zero
                 ELSE /\ IsFinite(lastCorrelation)
                      /\ Mul(lastCorrelation,
                             Sqrt(Mul(CenteredProducts(x, x),
                                      CenteredProducts(y, y))))
                           = CenteredProducts(x, y)

\* a call on two arrays of length 3 of which the second is constant
C14_Witness ==
    /\ pc = "returned"
    /\ Len(normalizedA) = 3
    /\ Len(shiftedB) = 3
    /\ ~IsConstant(normalizedA)
    /\ IsConstant(shiftedB)
    /\ ~IsZero(shiftedB[1])
    /\ lastCorrelation = Zero

\* C15: no step of the effect changes seriesA or seriesB or a record in
\* them, and the arrays handed to extractValues, slice, normalize and
\* shiftSeries are afterwards what they were: valuesA and valuesB are still
\* the extracted values, truncatedA and truncatedB their prefixes, and
\* normalizedB is the same before and after every shift.
C15_ArgumentsUnchanged ==
    [][/\ seriesA' = seriesA
       /\ seriesB' = seriesB
       /\ (pc = "mounted" /\ Extracted') =>
              /\ valuesA' = extractValues(seriesA')
              /\ valuesB' = extractValues(seriesB')
              /\ truncatedA' = Truncate(valuesA', Len(truncatedA'))
              /\ truncatedB' = Truncate(valuesB', Len(truncatedB'))
       /\ (pc = "mounted" /\ pc' = "sweep") =>
              /\ normalizedA' = normalize(truncatedA')
              /\ normalizedB' = normalize(truncatedB')
       /\ pc = "sweep" =>
              /\ valuesA' = valuesA
              /\ valuesB' = valuesB
              /\ truncatedA' = truncatedA
              /\ truncatedB' = truncatedB
              /\ normalizedA' = normalizedA
              /\ normalizedB' = normalizedB]_vars

\* the loop has shifted a series of three z-scores, not all 0, to both sides
C15_Witness ==
    /\ pc = "sweep"
    /\ Len(normalizedB) = 3
    /\ ~AllZero(normalizedB)
    /\ maxLag >= 1
    /\ lag >= 2

\* C16: the effect ends after exactly 2*maxLag + 1 passes through the loop,
\* with one score reported and isCalculating false.
C16_TerminatesAfterSweep ==
    pc = "done" =>
        /\ evals = 2 * maxLag + 1
        /\ Len(reported) = 1
        /\ isCalculating = FALSE

\* the score of a direct call of the engine on the two series, maxLag 10
DirectScore ==
    LET vA == extractValues(seriesA)
        vB == extractValues(seriesB)
        minLength == Min(Len(vA), Len(vB))
    IN  IF minLength < 2 THEN Zero
        ELSE crossCorrelationAnalysis(Truncate(vA, minLength),
                                      Truncate(vB, minLength), WrapperMaxLag)

\* C19: the promise of App's calculateCorrelation is resolved with the score
\* the engine computes for the two series with maxLag 10, whether the timer
\* callback runs before or after the component's effect.
C19_WrapperResolvesScore ==
    resolved # <<>> => resolved = <<DirectScore>>

-----------------------------------------------------------------------------
(* The sentiment list and the linked pairs *)

NonIncreasing(results) ==
    \A k \in 1..(Len(results) - 1) :
        results[k].correlation >= results[k + 1].correlation

\* C17: in every state of the dashboard sentimentResults is ordered by
\* non-increasing correlation, and so is the list the sidebar shows while
\* no search term is active; arrivals of a market's results, cache hits,
\* link and unlink keep it so.
C17_ResultsSorted ==
    /\ NonIncreasing(sentimentResults)
    /\ sentimentSearchTerm = "" =>
           /\ filteredSentimentResults = sentimentResults
           /\ NonIncreasing(filteredSentimentResults)

\* results of two markets with different scores, one of them linked, all
\* calls over, no search term
C17_Witness ==
    /\ jobs = EmptyBag
    /\ sentimentSearchTerm = ""
    /\ ~loadingSentiment
    /\ \E k \in 1..(Len(filteredSentimentResults) - 1) :
           /\ filteredSentimentResults[k].correlation
                  > filteredSentimentResults[k + 1].correlation
           /\ filteredSentimentResults[k + 1].isLinked
    /\ sentimentCache[CacheKeyOf(currentMarkets)] # <<>>

\* C18: every event that has a pair in linkedPairs is in the watchlist.
\* (That a link or unlink is triggered only while the current event is in
\* the watchlist is the guard ~LinkButtonDisabled of LinkSentiment and
\* UnlinkSentiment.)
C18_PairsOnlyForWatchlist ==
    \A e \in EventIds : linkedPairs[e] # <<>> => isInWatchlist(e)

\* C20: for the current event, a result is flagged isLinked exactly when
\* linkedPairs holds a pair with its marketId and gdeltQuery under the
\* current event's id.
C20_FlagMatchesPairs ==
    currentEvent # NoEvent =>
        \A k \in 1..Len(sentimentResults) :
            sentimentResults[k].isLinked <=>
                \E n \in 1..Len(linkedPairs[currentEvent]) :
                    SamePair(linkedPairs[currentEvent][n], sentimentResults[k])

-----------------------------------------------------------------------------
(* The event list, its search box and the watchlist callbacks *)

\* C21: once a fetch of the event list has completed and eventDataCache
\* holds the entry main_events, no further request for events is sent,
\* whatever the API answered, an empty list included: every later run of
\* the effect takes the list from the cache.
C21_FetchedOnce ==
    [][eventDataCache # <<>> =>
          /\ requests' = requests
          /\ loader.pc = "effect" /\ loader' # loader =>
                 events' = eventDataCache[1]]_vars

\* C22: after handleSearch(v) searchResults is empty if v is empty, and
\* otherwise holds the first ten matches of v itself among the events.
C22_ResultsForTypedValue ==
    [][\A v \in SearchTerms :
          HandleSearch(v) => searchResults' = MatchesFor(events, v)]_vars

\* C26: the watchlist never holds two entries with the same event id,
\* whatever the order of the addToWatchlist and removeFromWatchlist calls,
\* several calls for one event before App renders again included.
C26_NoDuplicates ==
    \A i, j \in 1..Len(watchlist) :
        i # j => watchlist[i] # watchlist[j]

-----------------------------------------------------------------------------
(* The price histories *)

\* C23: a call of fetchPriceHistory returns the cached response without a
\* request exactly when priceHistoryCache holds, under the key of clobID,
\* interval and fidelity, an entry younger than cacheExpiry; otherwise it
\* sends a request, and an OK response is stored under that key with the
\* time of the call and returned.
C23_CachedExactlyWhenFresh ==
    [][/\ \A c \in called' :
              c.requested <=> ~Fresh(priceHistoryCache[c.cacheKey], clock)
       /\ \A r \in returned' :
              r.state = "cached" =>
                  /\ priceHistoryCache[r.cacheKey] # <<>>
                  /\ r.value = <<priceHistoryCache[r.cacheKey][1].data>>
       /\ \A r \in returned' :
              r.state = "ok" =>
                  priceHistoryCache'[r.cacheKey] =
                      <<[data |-> r.value[1], timestamp |-> r.now]>>]_vars

\* the call of fetchAndGraphMultipleTimeSeries that ends in this step
EndsNow(g) ==
    /\ CopiesIn(g, graphCalls') < CopiesIn(g, graphCalls)
    /\ BagCardinality(graphCalls') < BagCardinality(graphCalls)

\* the list shown has a series of this token id
Shown(series, clobID) == \E n \in 1..Len(series) : series[n].clobID = clobID

\* C24: a request that fails (response not OK, or an exception) makes
\* fetchPriceHistory return null and leaves priceHistoryCache as it was;
\* fetchAndGraphMultipleTimeSeries then runs to its end: it shows the
\* series of the calls that returned a history, none for the failed call,
\* and clears loadingPrices.
C24_FailureGivesNull ==
    [][/\ \A r \in returned' :
              r.state = "failed" =>
                  /\ r.value = <<>>
                  /\ priceHistoryCache' = priceHistoryCache
       /\ \A g \in BagToSet(graphCalls) :
              EndsNow(g) =>
                  /\ loadingPrices' = FALSE
                  /\ \A k \in 1..Len(g.calls) :
                         LET c == g.calls[k]
                             failed ==
                                 \/ c.state = "failed"
                                 \/ /\ c.state = "pending"
                                    /\ \E r \in returned' : r.state = "failed"
                         IN  /\ failed => ~Shown(allTimeSeries', c.clobID)
                             /\ /\ c.state \in {"ok", "cached"}
                                /\ c.value[1].history # <<>>
                                => Shown(allTimeSeries', c.clobID)]_vars

\* a request has just failed, it was the last of its call of
\* fetchAndGraphMultipleTimeSeries, and the other series is shown
C24_Witness ==
    /\ \E r \in returned : r.state = "failed"
    /\ graphCalls = EmptyBag
    /\ ~loadingPrices
    /\ allTimeSeries # <<>>
    /\ \A r \in returned : ~Shown(allTimeSeries, r.clobID)

-----------------------------------------------------------------------------
(* Link and unlink *)

\* C25: where the link button is offered on a result, linking it and then
\* unlinking it gives back the pairs of the current event, the isLinked
\* flag of the result in sentimentResults and in the list shown, and its
\* flag in the cache entry of the current markets.
C25_LinkThenUnlinkRestores ==
    \A i \in 1..Len(filteredSentimentResults) :
        LET result == filteredSentimentResults[i]
            linked == [result EXCEPT !.isLinked = TRUE]
            cached == sentimentCache[CacheKeyOf(currentMarkets)]
            results2 == SetLinked(SetLinked(sentimentResults, result, TRUE),
                                  linked, FALSE)
            cached2 == SetLinked(SetLinked(cached, result, TRUE),
                                 linked, FALSE)
        IN  /\ ListShown
            /\ ~LinkButtonDisabled
            /\ ~result.isLinked
            /\ currentEvent # NoEvent
            => /\ PairsAfterUnlink(
                      PairsAfterLink(linkedPairs[currentEvent], result),
                      linked) = linkedPairs[currentEvent]
               /\ \A k \in 1..Len(sentimentResults) :
                      SamePair(sentimentResults[k], result) =>
                          results2[k].isLinked = sentimentResults[k].isLinked
               /\ \A k \in 1..Len(cached) :
                      SamePair(cached[k], result) =>
                          cached2[k].isLinked = cached[k].isLinked

=============================================================================
